---- MODULE Spec2Model ----
(***************************************************************************)
(* Model of hoyo-daily: the redeem run (redeem.py main / process_game /    *)
(* redeem_process), the daily-claim run (daily.py main /                   *)
(* DailyClaimer.claim) and the dedup ledger of utils.py.                   *)
(*                                                                         *)
(* Status strings of the source are written in ASCII:                      *)
(*   "OK" = check mark, "CLAIMED" = yellow circle, "INVALID" = skull,      *)
(*   "COOLDOWN" = stopwatch, "FAIL" = red cross, "?" = question mark;      *)
(*   "Cookie Err", "No Game", "ERR", "cookie_err", "no_account", "rules"   *)
(*   are the source's own strings.                                         *)
(* An env_name "ACC<idx>_<NAME>" is the record [acc |-> idx, name |-> N];  *)
(* the display name (the part after the first "_") is the same record      *)
(* with acc = 0.                                                           *)
(***************************************************************************)
EXTENDS Integers, Sequences, FiniteSets, TLC

VARIABLES
    program,        \* which script runs: "redeem" or "daily"
    settings,       \* utils.settings: MAX_PARALLEL, disabled games, webhook url set
    argv,           \* redeem.py command line: auto, force, codes per game
    feed,           \* what get_active_codes() returns (active codes per game)
    api,            \* names the account store returns, in order
    used_files,     \* used/<game>.txt: the lines of each game's ledger file
    used_at_start,  \* the ledger files as they were when the run started
    pc,             \* position of main
    codes_map,      \* redeem main: game key -> list of codes (<<>> = key absent)
    cookies,        \* list of CookieInfo
    cookies_fetched,\* get_cookies_from_api() was called
    key_idx,        \* redeem main: index of the game being processed
    code_idx,       \* process_game: index of the code being swept
    semaphore,      \* process_game: free slots of asyncio.Semaphore
    tasks,          \* running coroutines: task id -> [pc, info, fault, ...];
                    \* fault: the task's try block caught an exception
    results,        \* process_game: the results list
    batch,          \* game key -> outcomes returned for the game (res / infos)
    webhook,        \* send_chunked_webhook calls made so far
    console,        \* what console.print has printed: tables and texts
    chunker,        \* one call of send_chunked_webhook: its lines, its place
                    \* in the loop, current_msg and the messages sent
    global_cookie_errors, \* main: names collected for the final alert
    records,        \* game key -> number of update_used_codes calls
    sleeps,         \* game key -> number of asyncio.sleep(5) calls
    remote_games,   \* game keys for which a game-service call was made
    open_failed,    \* indices of the accounts with a failed session open
    monthly_rewards,\* DailyClaimer._monthly_rewards per game
    fetches,        \* game key -> number of get_monthly_rewards calls
    runs            \* number of runs of the script started so far

inputs == << program, settings, argv, feed, api, used_at_start, runs >>

vars == << program, settings, argv, feed, api, used_files, used_at_start, pc,
           codes_map, cookies, cookies_fetched, key_idx, code_idx, semaphore,
           tasks, results, batch, webhook, console, chunker,
           global_cookie_errors, records,
           sleeps, remote_games, open_failed, monthly_rewards, fetches,
           runs >>

(***************************************************************************)
(* Bounds of the model.                                                    *)
(***************************************************************************)
MaxParallel == 2    \* MAX_PARALLEL is drawn from 1..MaxParallel
MaxWork == 2        \* wide inputs: accounts x work items is at most MaxWork
MaxRuns == 2        \* runs of redeem.py on one ledger, one after another

(***************************************************************************)
(* Data.                                                                   *)
(***************************************************************************)
GAME_MAP == <<"gi", "sr", "zz">>
Keys == {"gi", "sr", "zz"}
Codes == {"C1", "C2"}
Names == {"BOB", "EVE"}

Range(s) == {s[i] : i \in DOMAIN s}

RECURSIVE Orders(_)
Orders(S) ==
    IF S = {} THEN {<<>>}
    ELSE UNION {{<<x>> \o s : s \in Orders(S \ {x})} : x \in S}

RECURSIVE SumLen(_, _)
SumLen(f, D) ==
    IF D = {} THEN 0
    ELSE LET k == CHOOSE x \in D : TRUE
         IN  Cardinality(f[k]) + SumLen(f, D \ {k})

RECURSIVE Flatten(_)
Flatten(ss) == IF ss = <<>> THEN <<>> ELSE Head(ss) \o Flatten(Tail(ss))


(***************************************************************************)
(* utils.py: accounts, ledger.                                             *)
(***************************************************************************)
\* get_cookies_from_api: item idx of the response becomes ACC<idx>_<NAME>;
\* a failed or empty response gives the empty list.
get_cookies_from_api(names) ==
    [i \in 1..Len(names) |-> [env_name |-> [acc |-> i, name |-> names[i]]]]

\* parts = env_name.split("_", 1); display_name = parts[1]
display_name(cookie) == [acc |-> 0, name |-> cookie.env_name.name]

\* get_used_codes: the set of lines of each game's file
get_used_codes(files) == [k \in Keys |-> Range(files[k])]

\* update_used_codes when the file of the game is not found: nothing written
update_used_codes_skip(files, game_key, codes) == files

\* update_used_codes with one file for all games: every ledger gets the lines
update_used_codes_all(files, game_key, codes) ==
    [k \in Keys |-> files[k] \o codes]

\* update_used_codes with the file opened for writing: the old lines are lost
update_used_codes_w(files, game_key, codes) ==
    [files EXCEPT ![game_key] = codes]

\* update_used_codes: appends one line per code, in list order
update_used_codes(files, game_key, codes) ==
    [files EXCEPT ![game_key] = @ \o codes]

(***************************************************************************)
(* redeem.py main, lines 116-130: the work-item set of each game.          *)
(***************************************************************************)
new_codes(args, active, files, k) ==
    LET used == IF args.force THEN [g \in Keys |-> {}]
                ELSE get_used_codes(files)
    IN  active[k] \ used[k]

WorkItems(args, active, files) ==
    [k \in Keys |->
        IF args.auto
        THEN args.codes[k] \cup new_codes(args, active, files, k)
        ELSE args.codes[k]]

\* list(v): the order of a list made from a set is not specified
CodeLists(items) ==
    {cm \in [Keys -> UNION {Orders(items[k]) : k \in Keys}] :
        \A k \in Keys : cm[k] \in Orders(items[k])}

(***************************************************************************)
(* redeem.py redeem_process: one (account, code) task.                     *)
(***************************************************************************)
RedeemInfo(env, code, status, uid, success) ==
    [env_name |-> env, code |-> code, status |-> status, uid |-> uid,
     success |-> success]

\* what client.redeem_code can do: return, raise one of the typed
\* redemption errors, or raise anything else
RedeemReplies == {"ok", "claimed", "invalid", "cooldown", "other", "fault"}

RedeemStatus(reply) ==
    CASE reply = "ok" -> "OK"
      [] reply = "claimed" -> "CLAIMED"
      [] reply = "invalid" -> "INVALID"
      [] reply = "cooldown" -> "COOLDOWN"
      [] reply = "other" -> "FAIL"
      [] OTHER -> "ERR"

RedeemResult(cookie, code, reply) ==
    IF reply = "fault"
    THEN RedeemInfo(display_name(cookie), code, "ERR", "?", FALSE)
    ELSE RedeemInfo(display_name(cookie), code, RedeemStatus(reply), "uid",
                    RedeemStatus(reply) = "OK")

\* locked with the gate left open: a semaphore that never closes
locked_never(sem) == FALSE

\* asyncio.Semaphore.locked(): no free slot
locked(sem) == sem = 0

\* leaving `async with semaphore`: Semaphore.release()
release(sem) == sem + 1

Running == {"client", "accounts", "redeem"}

TaskDone(t) == tasks[t].pc = "done"

\* return RedeemInfo(...)
Finish(t, info) ==
    tasks' = [tasks EXCEPT ![t].pc = "done", ![t].info = info]

\* lines 61-65: `except Exception`, return RedeemInfo(..., status="ERR")
RedeemFault(t, cookie, code) ==
    tasks' = [tasks EXCEPT ![t].pc = "done",
                           ![t].info = RedeemInfo(display_name(cookie), code,
                                                  "ERR", "?", FALSE),
                           ![t].fault = TRUE]

\* async with semaphore: the slot is taken before the first remote call
Acquire(t) ==
    /\ program = "redeem"
    /\ pc = "gather"
    /\ tasks[t].pc = "wait"
    /\ ~locked(semaphore)
    /\ semaphore' = semaphore - 1
    /\ tasks' = [tasks EXCEPT ![t].pc = "client"]
    /\ UNCHANGED << inputs, used_files, pc, codes_map, cookies,
                    cookies_fetched, key_idx, code_idx, results, batch,
                    console, chunker, webhook, global_cookie_errors, records,
                    sleeps, remote_games, open_failed, monthly_rewards,
                    fetches >>

CurKey == GAME_MAP[key_idx]
CurCodes == codes_map[CurKey]

\* utils.create_genshin_client returns (client, None) or (None, str(e));
\* str(e) is the empty string for an exception raised without a message
ClientReplies == {"ok", "err", "err_empty"}

\* create_genshin_client returns; `if not client`
ClientReturn(t) ==
    /\ program = "redeem"
    /\ tasks[t].pc = "client"
    /\ \E reply \in ClientReplies :
          IF reply = "ok"
          THEN /\ tasks' = [tasks EXCEPT ![t].pc = "accounts"]
               /\ UNCHANGED semaphore
          ELSE /\ Finish(t, RedeemInfo(cookies[t[2]].env_name,
                                       CurCodes[t[1]], "Cookie Err", "?", FALSE))
               /\ semaphore' = release(semaphore)
    /\ open_failed' = IF tasks'[t].pc = "done" THEN open_failed \cup {t[2]}
                      ELSE open_failed
    /\ remote_games' = remote_games \cup {CurKey}
    /\ UNCHANGED << inputs, used_files, pc, codes_map, cookies,
                    cookies_fetched, key_idx, code_idx, results, batch,
                    console, chunker, webhook, global_cookie_errors, records,
                    sleeps, monthly_rewards, fetches >>

\* client.get_game_accounts(): a profile of the game, none, or a fault
AccountsReturn(t) ==
    /\ program = "redeem"
    /\ tasks[t].pc = "accounts"
    /\ \E reply \in {"target", "none", "fault"} :
          IF reply = "target"
          THEN /\ tasks' = [tasks EXCEPT ![t].pc = "redeem"]
               /\ UNCHANGED semaphore
          ELSE /\ IF reply = "none"
                  THEN Finish(t, RedeemInfo(display_name(cookies[t[2]]),
                                            CurCodes[t[1]], "No Game", "?",
                                            FALSE))
                  ELSE RedeemFault(t, cookies[t[2]], CurCodes[t[1]])
               /\ semaphore' = release(semaphore)
    /\ UNCHANGED << inputs, used_files, pc, codes_map, cookies,
                    cookies_fetched, key_idx, code_idx, results, batch,
                    console, chunker, webhook, global_cookie_errors, records,
                    sleeps, remote_games, open_failed, monthly_rewards,
                    fetches >>

\* client.redeem_code(code, uid)
RedeemReturn(t) ==
    /\ program = "redeem"
    /\ tasks[t].pc = "redeem"
    /\ \E reply \in RedeemReplies :
          IF reply = "fault"
          THEN RedeemFault(t, cookies[t[2]], CurCodes[t[1]])
          ELSE Finish(t, RedeemResult(cookies[t[2]], CurCodes[t[1]], reply))
    /\ semaphore' = release(semaphore)
    /\ UNCHANGED << inputs, used_files, pc, codes_map, cookies,
                    cookies_fetched, key_idx, code_idx, results, batch,
                    console, chunker, webhook, global_cookie_errors, records,
                    sleeps, remote_games, open_failed, monthly_rewards,
                    fetches >>


(***************************************************************************)
(* redeem.py process_game: the codes of one game, one sweep per code.      *)
(***************************************************************************)
\* SweepCodes with the barrier lost: one gather over all the codes left
SweepCodes_all(codes, k) == k..Len(codes)

\* for code in codes: the codes whose tasks the iteration at index k creates
SweepCodes(codes, k) == {k}

\* tasks = [redeem_process(semaphore, cookie, lang, game, code) for cookie in cookies]
NewTasks(ks, n) ==
    [t \in ks \X (1..n) |-> [pc |-> "wait", info |-> <<>>, fault |-> FALSE]]

RECURSIVE SetToSeq(_)
SetToSeq(S) ==
    IF S = {} THEN <<>>
    ELSE LET m == CHOOSE x \in S : \A y \in S : x <= y
         IN  <<m>> \o SetToSeq(S \ {m})

\* code_results with a filter: results without a game profile are left out
code_results_found(tk) ==
    LET ks == SetToSeq({t[1] : t \in DOMAIN tk})
        n  == Cardinality({t[2] : t \in DOMAIN tk})
        at(j, i) == tk[<<ks[j], i>>].info
    IN  Flatten([j \in 1..Len(ks) |->
            Flatten([i \in 1..n |->
                IF at(j, i).status = "No Game" THEN <<>> ELSE << at(j, i) >>])])

\* code_results = await asyncio.gather(*tasks): the results in task order
code_results(tk) ==
    LET ks == SetToSeq({t[1] : t \in DOMAIN tk})
        n  == Cardinality({t[2] : t \in DOMAIN tk})
    IN  Flatten([j \in 1..Len(ks) |-> [i \in 1..n |-> tk[<<ks[j], i>>].info]])

Max(S) == CHOOSE x \in S : \A y \in S : y <= x

(***************************************************************************)
(* redeem.py main, lines 162-226: table, webhook filter, ledger, alert.    *)
(***************************************************************************)
CookieStatuses == {"Cookie Err", "cookie_err"}

\* the filter of lines 180-198
RedeemBucket(r) ==
    IF r.status = "No Game" THEN "skip"
    ELSE IF r.status \in CookieStatuses THEN "cookie"
    ELSE IF r.status \in {"OK", "CLAIMED"} THEN "success"
    ELSE IF r.status = "ERR" THEN "error"
    ELSE IF r.status \in {"INVALID", "COOLDOWN", "rules", "FAIL"} THEN "error"
    ELSE "none"

Line(glyph, code, env, uid, text) ==
    [glyph |-> glyph, code |-> code, env_name |-> env, uid |-> uid,
     text |-> text]

\* the f-strings of lines 190-198
RedeemLine(r) ==
    IF r.status \in {"OK", "CLAIMED"}
    THEN Line(r.status, r.code, r.env_name, r.uid, "")
    ELSE IF r.status = "ERR"
    THEN Line("FAIL", "", r.env_name, "", "Unknown Error")
    ELSE Line(r.status, r.code, r.env_name, "", "")

RECURSIVE MapLines(_, _, _)
MapLines(res, bucket, b) ==
    IF res = <<>> THEN <<>>
    ELSE (IF bucket[1] = b THEN <<Head(res)>> ELSE <<>>)
         \o MapLines(Tail(res), Tail(bucket), b)

RedeemLines(res, b) ==
    LET picked == MapLines(res, [i \in 1..Len(res) |-> RedeemBucket(res[i])], b)
    IN  [i \in 1..Len(picked) |-> RedeemLine(picked[i])]

\* set_add on a list instead of a set: the name is appended every time
set_add_list(names, x) == Append(names, x)

\* set.add on the set of names, kept in insertion order
set_add(names, x) ==
    IF x \in Range(names) THEN names ELSE Append(names, x)

RECURSIVE AddAll(_, _)
AddAll(names, xs) ==
    IF xs = <<>> THEN names ELSE AddAll(set_add(names, Head(xs)), Tail(xs))

CookieNames(res, bucket) ==
    LET picked == MapLines(res, bucket, "cookie")
    IN  [i \in 1..Len(picked) |-> picked[i].env_name]

\* one call of send_chunked_webhook(url, title, lines, color)
send_chunked_webhook(log, kind, game, lines, color) ==
    Append(log, [kind |-> kind, game |-> game, lines |-> lines,
                 color |-> color])

\* lines 202-216: the per-game messages
GameMessages(log, game, success_lines, error_lines, url_set) ==
    LET a == IF url_set /\ success_lines # <<>>
             THEN send_chunked_webhook(log, "success", game, success_lines,
                                       "00ff00")
             ELSE log
    IN  IF url_set /\ error_lines # <<>>
        THEN send_chunked_webhook(a, "error", game, error_lines, "ff0000")
        ELSE a

NameRank(n) == IF n = "BOB" THEN 1 ELSE 2
NameLess(a, b) ==
    \/ a.acc < b.acc
    \/ a.acc = b.acc /\ NameRank(a.name) < NameRank(b.name)

\* sorted(global_cookie_errors)
RECURSIVE sorted(_)
sorted(names) ==
    IF names = <<>> THEN <<>>
    ELSE LET i == CHOOSE j \in 1..Len(names) :
                     \A l \in 1..Len(names) :
                        l = j \/ names[l] = names[j]
                        \/ NameLess(names[j], names[l])
             rest == [l \in 1..(Len(names) - 1) |->
                        IF l < i THEN names[l] ELSE names[l + 1]]
         IN  <<names[i]>> \o sorted(rest)

\* lines 221-226: the final cookie-error alert
FinalReport(log, names, url_set) ==
    IF names # <<>> /\ url_set
    THEN send_chunked_webhook(log, "alert", "",
             << [count |-> Len(names), names |-> sorted(names)] >>, "ff0000")
    ELSE log


(***************************************************************************)
(* redeem.py main: the loop over codes_map.                                *)
(***************************************************************************)
\* Processable with the feature flag ignored
Processable_any(cm, j) == cm[GAME_MAP[j]] # <<>>

\* lines 153-157: a key is processed when it has codes and is not disabled
Processable(cm, j) ==
    cm[GAME_MAP[j]] # <<>> /\ GAME_MAP[j] \notin settings.disabled

NextKey(cm, from) ==
    IF \E j \in from..Len(GAME_MAP) : Processable(cm, j)
    THEN CHOOSE j \in from..Len(GAME_MAP) :
            Processable(cm, j) /\ \A l \in from..(j - 1) : ~Processable(cm, l)
    ELSE 0

\* main from the top of the loop at key index `from`, up to its next await
\* (the gather of the next game's first sweep) or to the end of the run
ContinueMain(cm, n, from, log, names) ==
    LET j == NextKey(cm, from)
    IN  /\ global_cookie_errors' = names
        /\ key_idx' = j
        /\ IF j = 0
           THEN /\ pc' = "done"
                /\ webhook' = FinalReport(log, names, settings.webhook)
                /\ code_idx' = 0
                /\ semaphore' = 0
                /\ tasks' = <<>>
                /\ results' = <<>>
           ELSE LET ks == SweepCodes(cm[GAME_MAP[j]], 1)
                IN  /\ pc' = "gather"
                    /\ webhook' = log
                    /\ code_idx' = Max(ks)
                    /\ semaphore' = settings.MAX_PARALLEL
                    /\ tasks' = NewTasks(ks, n)
                    /\ results' = <<>>

\* NoNewCodes with the early return lost: never true
NoNewCodes_never(cm) == FALSE

\* line 132: `if not any(codes_map.values())`
NoNewCodes(cm) == \A k \in Keys : cm[k] = <<>>

\* NoCookies with the test lost: the run goes on without accounts
NoCookies_never(cks) == FALSE

\* `if not cookies` after get_cookies_from_api()
NoCookies(cks) == cks = <<>>

\* lines 116-147
RedeemStart ==
    /\ program = "redeem"
    /\ pc = "start"
    /\ \E cm \in CodeLists(WorkItems(argv, feed, used_files)) :
          /\ codes_map' = cm
          /\ IF NoNewCodes(cm)
             THEN /\ pc' = "done"
                  /\ UNCHANGED << cookies, cookies_fetched, key_idx, code_idx,
                                  semaphore, tasks, results, webhook,
                                  global_cookie_errors >>
             ELSE /\ cookies_fetched' = TRUE
                  /\ cookies' = get_cookies_from_api(api)
                  /\ IF NoCookies(get_cookies_from_api(api))
                     THEN /\ pc' = "done"
                          /\ UNCHANGED << key_idx, code_idx, semaphore, tasks,
                                          results, webhook,
                                          global_cookie_errors >>
                     ELSE ContinueMain(cm, Len(api), 1, webhook, <<>>)
    /\ UNCHANGED << inputs, used_files, batch, console, chunker, records,
                    sleeps, remote_games, open_failed, monthly_rewards,
                    fetches >>

\* table.add_row(r.env_name, r.uid, r.status, r.code)
RedeemRow(r) ==
    [env_name |-> r.env_name, uid |-> r.uid, status |-> r.status,
     code |-> r.code]

\* lines 172-175: the rows of the game's table
RECURSIVE RedeemRows(_)
RedeemRows(res) ==
    IF res = <<>> THEN <<>>
    ELSE (IF Head(res).status # "No Game" THEN << RedeemRow(Head(res)) >>
          ELSE <<>>) \o RedeemRows(Tail(res))

\* a table as console.print shows it
Table(game, rows) == [kind |-> "table", game |-> game, rows |-> rows]

\* process_game returned res: lines 162-218, then the loop goes on
GameReturn(res) ==
    LET key    == CurKey
        bucket == [i \in 1..Len(res) |-> RedeemBucket(res[i])]
        names1 == IF res # <<>>
                  THEN AddAll(global_cookie_errors, CookieNames(res, bucket))
                  ELSE global_cookie_errors
        log1   == IF res # <<>>
                  THEN GameMessages(webhook, key, RedeemLines(res, "success"),
                                    RedeemLines(res, "error"), settings.webhook)
                  ELSE webhook
    IN  /\ batch' = (key :> res) @@ batch
        /\ UNCHANGED chunker
        /\ IF res # <<>>
           THEN /\ console' = Append(console, Table(key, RedeemRows(res)))
                /\ used_files' = update_used_codes(used_files, key, CurCodes)
                /\ records' = [records EXCEPT ![key] = @ + 1]
           ELSE UNCHANGED << console, used_files, records >>
        /\ ContinueMain(codes_map, Len(cookies), key_idx + 1, log1, names1)

\* await asyncio.gather(*tasks) returns; results.extend(code_results);
\* if len(codes) > 1: await asyncio.sleep(5)
SweepReturn ==
    /\ program = "redeem"
    /\ pc = "gather"
    /\ \A t \in DOMAIN tasks : TaskDone(t)
    /\ LET res1 == results \o code_results(tasks)
       IN  IF Len(CurCodes) > 1
           THEN /\ pc' = "sleep"
                /\ results' = res1
                /\ tasks' = <<>>
                /\ sleeps' = [sleeps EXCEPT ![CurKey] = @ + 1]
                /\ UNCHANGED << used_files, key_idx, code_idx, semaphore,
                                batch, console, chunker, webhook,
                                global_cookie_errors, records >>
           ELSE /\ GameReturn(res1)
                /\ UNCHANGED sleeps
    /\ UNCHANGED << inputs, codes_map, cookies, cookies_fetched, remote_games,
                    open_failed, monthly_rewards, fetches >>

\* asyncio.sleep(5) returns: the next code, or return results
SleepReturn ==
    /\ program = "redeem"
    /\ pc = "sleep"
    /\ IF code_idx < Len(CurCodes)
       THEN LET ks == SweepCodes(CurCodes, code_idx + 1)
            IN  /\ pc' = "gather"
                /\ code_idx' = Max(ks)
                /\ tasks' = NewTasks(ks, Len(cookies))
                /\ UNCHANGED << used_files, key_idx, semaphore, results,
                                batch, console, chunker, webhook,
                                global_cookie_errors, records >>
       ELSE GameReturn(results)
    /\ UNCHANGED << inputs, codes_map, cookies, cookies_fetched, sleeps,
                    remote_games, open_failed, monthly_rewards, fetches >>

(***************************************************************************)
(* daily.py DailyClaimer.claim: one (account, game) task.                  *)
(***************************************************************************)
\* utils.DailyInfo with its defaults, env_name = display_name
DailyInfo(env) ==
    [env_name |-> env, status |-> "FAIL", uid |-> "?", check_in_count |-> "?",
     reward |-> "?", success |-> FALSE]

Days == {1, 2}                \* the day client.get_reward_info() reports
Catalogs == {<< "R1" >>}      \* what client.get_monthly_rewards() returns

\* Fault with the status left as it was: the handler only logs
Fault_kept(t) ==
    tasks' = [tasks EXCEPT ![t].pc = "done", ![t].fault = TRUE]

\* except Exception: info.status = "ERR"; return info
Fault(t) ==
    tasks' = [tasks EXCEPT ![t].pc = "done", ![t].info.status = "ERR",
                           ![t].fault = TRUE]

\* reward = self._monthly_rewards[day - 1] and the two fields made from it;
\* an index out of range raises IndexError
RewardStep(t, catalog, day) ==
    IF day \in 1..Len(catalog)
    THEN tasks' = [tasks EXCEPT ![t].pc = "accounts",
                                ![t].info.reward = catalog[day],
                                ![t].info.check_in_count = ToString(day)]
    ELSE Fault(t)

\* create_genshin_client returns; `if err`
DailyClientReturn(t) ==
    /\ program = "daily"
    /\ tasks[t].pc = "client"
    /\ \E reply \in ClientReplies :
          IF reply = "ok"
          THEN tasks' = [tasks EXCEPT ![t].pc = "claim"]
          ELSE IF reply = "err"
          THEN tasks' = [tasks EXCEPT ![t].pc = "done",
                                      ![t].info.status = "cookie_err"]
          \* client is None and err is falsy: claim_daily_reward raises
          \* AttributeError inside the try
          ELSE Fault(t)
    /\ open_failed' = IF tasks'[t].pc = "done" THEN open_failed \cup {t[2]}
                      ELSE open_failed
    /\ remote_games' = remote_games \cup {t[1]}
    /\ UNCHANGED << inputs, used_files, pc, codes_map, cookies,
                    cookies_fetched, key_idx, code_idx, semaphore, results,
                    batch, console, chunker, webhook, global_cookie_errors,
                    records, sleeps, monthly_rewards, fetches >>

\* what client.claim_daily_reward can do: return, raise AlreadyClaimed, raise
\* GenshinException with retcode -10002 or with another retcode, or raise
\* anything else
ClaimReplies == {"ok", "already", "no_account", "genshin_err", "fault"}

\* ClaimStep with the two `return info` lost: the task goes on to the lookups
ClaimStep_on(reply) ==
    CASE reply = "ok" -> [pc |-> "reward_info", status |-> "OK"]
      [] reply = "already" -> [pc |-> "reward_info", status |-> "CLAIMED"]
      [] reply = "no_account" -> [pc |-> "reward_info", status |-> "no_account"]
      [] OTHER -> [pc |-> "reward_info", status |-> "FAIL"]

\* lines 43-54: the status the claim gives and where the task goes next
ClaimStep(reply) ==
    CASE reply = "ok" -> [pc |-> "reward_info", status |-> "OK"]
      [] reply = "already" -> [pc |-> "reward_info", status |-> "CLAIMED"]
      [] reply = "no_account" -> [pc |-> "done", status |-> "no_account"]
      [] OTHER -> [pc |-> "done", status |-> "FAIL"]

\* client.claim_daily_reward(reward=False)
ClaimReturn(t) ==
    /\ program = "daily"
    /\ tasks[t].pc = "claim"
    /\ \E reply \in ClaimReplies :
          IF reply = "fault"
          THEN Fault(t)
          ELSE tasks' = [tasks EXCEPT ![t].pc = ClaimStep(reply).pc,
                                      ![t].info.status = ClaimStep(reply).status]
    /\ UNCHANGED << inputs, used_files, pc, codes_map, cookies,
                    cookies_fetched, key_idx, code_idx, semaphore, results,
                    batch, console, chunker, webhook, global_cookie_errors,
                    records, sleeps, remote_games, open_failed,
                    monthly_rewards, fetches >>

\* `if not self._monthly_rewards`
CacheEmpty(cache) == cache = <<>>

\* client.get_reward_info() returns; then the cache test of line 59
RewardInfoReturn(t) ==
    /\ program = "daily"
    /\ tasks[t].pc = "reward_info"
    /\ \E fault \in BOOLEAN, day \in Days :
          IF fault
          THEN Fault(t) /\ UNCHANGED fetches
          ELSE IF CacheEmpty(monthly_rewards[t[1]])
          THEN /\ tasks' = [tasks EXCEPT ![t].pc = "monthly", ![t].day = day]
               /\ fetches' = [fetches EXCEPT ![t[1]] = @ + 1]
          ELSE /\ RewardStep(t, monthly_rewards[t[1]], day)
               /\ UNCHANGED fetches
    /\ UNCHANGED << inputs, used_files, pc, codes_map, cookies,
                    cookies_fetched, key_idx, code_idx, semaphore, results,
                    batch, console, chunker, webhook, global_cookie_errors,
                    records, sleeps, remote_games, open_failed,
                    monthly_rewards >>

\* client.get_monthly_rewards() returns; self._monthly_rewards = ...
MonthlyReturn(t) ==
    /\ program = "daily"
    /\ tasks[t].pc = "monthly"
    /\ \E fault \in BOOLEAN, catalog \in Catalogs :
          IF fault
          THEN Fault(t) /\ UNCHANGED monthly_rewards
          ELSE /\ monthly_rewards' = [monthly_rewards EXCEPT ![t[1]] = catalog]
               /\ RewardStep(t, catalog, tasks[t].day)
    /\ UNCHANGED << inputs, used_files, pc, codes_map, cookies,
                    cookies_fetched, key_idx, code_idx, semaphore, results,
                    batch, console, chunker, webhook, global_cookie_errors,
                    records, sleeps, remote_games, open_failed, fetches >>

\* client.get_game_accounts() returns
DailyAccountsReturn(t) ==
    /\ program = "daily"
    /\ tasks[t].pc = "accounts"
    /\ \E reply \in {"target", "none", "fault"} :
          CASE reply = "target" ->
                 tasks' = [tasks EXCEPT ![t].pc = "done",
                                        ![t].info.uid = "uid",
                                        ![t].info.success = TRUE]
            [] reply = "none" ->
                 tasks' = [tasks EXCEPT ![t].pc = "done",
                                        ![t].info.uid = "Unknown",
                                        ![t].info.success = TRUE]
            [] OTHER -> Fault(t)
    /\ UNCHANGED << inputs, used_files, pc, codes_map, cookies,
                    cookies_fetched, key_idx, code_idx, semaphore, results,
                    batch, console, chunker, webhook, global_cookie_errors,
                    records, sleeps, remote_games, open_failed,
                    monthly_rewards, fetches >>

(***************************************************************************)
(* daily.py main.                                                          *)
(***************************************************************************)
\* lines 119-121: the games that are not disabled, in the order of `games`
EnabledGames ==
    LET on == [j \in 1..Len(GAME_MAP) |->
                 IF GAME_MAP[j] \in settings.disabled THEN <<>>
                 ELSE << GAME_MAP[j] >>]
    IN  Flatten(on)

\* results[name] = [tg.create_task(claimer.claim(c, lang)) for c in cookies]
DailyTasks(games, cks) ==
    [t \in Range(games) \X (1..Len(cks)) |->
        [pc |-> "client", info |-> DailyInfo(display_name(cks[t[2]])),
         day |-> 0, fault |-> FALSE]]

\* lines 104-123
DailyStart ==
    /\ program = "daily"
    /\ pc = "start"
    /\ cookies_fetched' = TRUE
    /\ cookies' = get_cookies_from_api(api)
    /\ IF NoCookies(get_cookies_from_api(api))
       THEN pc' = "done" /\ UNCHANGED tasks
       ELSE /\ pc' = "taskgroup"
            /\ tasks' = DailyTasks(EnabledGames, get_cookies_from_api(api))
    /\ UNCHANGED << inputs, used_files, codes_map, key_idx, code_idx,
                    semaphore, results, batch, console, chunker, webhook,
                    global_cookie_errors, records, sleeps, remote_games,
                    open_failed, monthly_rewards, fetches >>

\* DailyBucket with the first test lost: no_account is not skipped
DailyBucket_noskip(i) ==
    IF i.status \in CookieStatuses THEN "cookie"
    ELSE IF i.status \in {"OK", "CLAIMED"} THEN "success"
    ELSE "error"

\* the filter of lines 155-172
DailyBucket(i) ==
    IF i.status = "no_account" THEN "skip"
    ELSE IF i.status \in CookieStatuses THEN "cookie"
    ELSE IF i.status \in {"OK", "CLAIMED"} THEN "success"
    ELSE "error"

\* the f-strings of lines 167-172
DailyLine(i) ==
    IF i.status \in {"OK", "CLAIMED"}
    THEN Line(i.status, "", i.env_name, i.uid, i.check_in_count)
    ELSE Line("FAIL", "", i.env_name, "", i.status)

DailyLines(infos, b) ==
    LET picked == MapLines(infos, [j \in 1..Len(infos) |-> DailyBucket(infos[j])], b)
    IN  [j \in 1..Len(picked) |-> DailyLine(picked[j])]

\* infos = [t.result() for t in tasks]
Infos(tk, g, n) == [i \in 1..n |-> tk[<<g, i>>].info]

\* the loop of lines 131-194 over the games of `results`
RECURSIVE DailyGames(_, _, _, _, _)
DailyGames(games, tk, n, log, names) ==
    IF games = <<>> THEN [log |-> log, names |-> names]
    ELSE LET infos  == Infos(tk, Head(games), n)
             bucket == [j \in 1..Len(infos) |-> DailyBucket(infos[j])]
         IN  DailyGames(Tail(games), tk, n,
                 GameMessages(log, Head(games), DailyLines(infos, "success"),
                              DailyLines(infos, "error"), settings.webhook),
                 AddAll(names, CookieNames(infos, bucket)))

\* table.add_row(i.env_name, i.uid, i.check_in_count, i.status, i.reward)
DailyRow(i) ==
    [env_name |-> i.env_name, uid |-> i.uid,
     check_in_count |-> i.check_in_count, status |-> i.status,
     reward |-> i.reward]

\* has_valid_info: some info of the game is not no_account
has_valid_info(infos) == \E j \in 1..Len(infos) : infos[j].status # "no_account"

\* rich_output: the tables of the games with has_valid_info, in game order
RECURSIVE rich_output(_, _, _)
rich_output(games, tk, n) ==
    IF games = <<>> THEN <<>>
    ELSE LET infos == Infos(tk, Head(games), n)
         IN  (IF has_valid_info(infos)
              THEN << Table(Head(games), [j \in 1..n |-> DailyRow(infos[j])]) >>
              ELSE <<>>) \o rich_output(Tail(games), tk, n)

\* lines 205-208: the panel of tables, or the text when there is none
DailyPrint(out, tables) ==
    IF tables # <<>> THEN out \o tables
    ELSE Append(out, [kind |-> "text", game |-> "", rows |-> <<>>])

\* the TaskGroup block exits when every task is done; lines 125-208
DailyReport ==
    /\ program = "daily"
    /\ pc = "taskgroup"
    /\ \A t \in DOMAIN tasks : TaskDone(t)
    /\ LET n   == Len(cookies)
           out == DailyGames(EnabledGames, tasks, n, webhook, <<>>)
       IN  /\ batch' = [g \in Range(EnabledGames) |-> Infos(tasks, g, n)]
           /\ global_cookie_errors' = out.names
           /\ webhook' = FinalReport(out.log, out.names, settings.webhook)
           /\ console' = DailyPrint(console,
                                    rich_output(EnabledGames, tasks, n))
    /\ UNCHANGED chunker
    /\ pc' = "done"
    /\ tasks' = <<>>
    /\ UNCHANGED << inputs, used_files, codes_map, cookies, cookies_fetched,
                    key_idx, code_idx, semaphore, results, records, sleeps,
                    remote_games, open_failed, monthly_rewards, fetches >>

(***************************************************************************)
(* Inputs of a run.                                                        *)
(***************************************************************************)
NoArgs == [auto |-> FALSE, force |-> FALSE, codes |-> [k \in Keys |-> {}]]
NoFeed == [k \in Keys |-> {}]

\* lists of n account names; the first account is BOB
RECURSIVE NameLists(_)
NameLists(n) ==
    IF n = 0 THEN {<<>>}
    ELSE IF n = 1 THEN {<<"BOB">>}
    ELSE {Append(s, x) : s \in NameLists(n - 1), x \in Names}

\* ledger files with at most n lines in all
Ledgers(n) ==
    {u \in [Keys -> {<<>>, <<"C1">>}] :
        /\ u["zz"] = <<>>
        /\ SumLen([k \in Keys |-> Range(u[k])], Keys) <= n}

\* codes for the first two games
CodeSets == {c \in [Keys -> SUBSET Codes] : c["zz"] = {}}

\* redeem, the command line, the feed and the ledger vary; one account
InitBuild ==
    /\ program = "redeem"
    /\ settings \in [MAX_PARALLEL : {1}, disabled : SUBSET {"sr"},
                     webhook : {TRUE}]
    /\ argv \in [auto : BOOLEAN, force : BOOLEAN, codes : CodeSets]
    /\ feed \in CodeSets
    /\ (~argv.auto) => feed = NoFeed
    /\ SumLen(argv.codes, Keys) + SumLen(feed, Keys) <= MaxWork
    /\ used_files \in Ledgers(1)
    /\ api \in {<<>>, <<"BOB">>}

\* redeem, the accounts and the settings vary; codes from the command line
InitRun ==
    /\ program = "redeem"
    /\ settings \in [MAX_PARALLEL : 1..MaxParallel, disabled : SUBSET {"sr"},
                     webhook : BOOLEAN]
    /\ argv \in [auto : {FALSE}, force : {FALSE}, codes : CodeSets]
    /\ feed = NoFeed
    /\ used_files = [k \in Keys |-> <<>>]
    /\ api \in UNION {NameLists(n) : n \in 1..MaxWork}
    /\ Len(api) * SumLen(argv.codes, Keys) <= MaxWork

\* redeem, two accounts and two codes
InitDeep ==
    /\ program = "redeem"
    /\ settings \in [MAX_PARALLEL : 1..MaxParallel, disabled : {{}},
                     webhook : {TRUE}]
    /\ argv = [auto |-> FALSE, force |-> FALSE,
               codes |-> [k \in Keys |-> IF k = "gi" THEN Codes ELSE {}]]
    /\ feed = NoFeed
    /\ used_files = [k \in Keys |-> <<>>]
    /\ api = <<"BOB", "EVE">>

\* daily: the accounts and the settings vary (daily.py never reads
\* MAX_PARALLEL, so one value of it is enough)
InitDaily ==
    /\ program = "daily"
    /\ settings \in [MAX_PARALLEL : {1}, disabled : SUBSET Keys,
                     webhook : BOOLEAN]
    /\ argv = NoArgs
    /\ feed = NoFeed
    /\ used_files = [k \in Keys |-> <<>>]
    /\ api \in UNION {NameLists(n) : n \in 0..MaxWork}
    /\ Len(api) * Cardinality(Keys \ settings.disabled) <= MaxWork

InitInputs == InitBuild \/ InitRun \/ InitDeep \/ InitDaily

\* no call of send_chunked_webhook is followed line by line
NoChunks == [lines |-> <<>>, i |-> 0, current_msg |-> 0, sent |-> <<>>]

\* the state of a run before main's first statement
Fresh ==
    /\ pc = "start"
    /\ codes_map = [k \in Keys |-> <<>>]
    /\ cookies = <<>>
    /\ cookies_fetched = FALSE
    /\ key_idx = 0
    /\ code_idx = 0
    /\ semaphore = 0
    /\ tasks = <<>>
    /\ results = <<>>
    /\ batch = <<>>
    /\ webhook = <<>>
    /\ console = <<>>
    /\ chunker = NoChunks
    /\ global_cookie_errors = <<>>
    /\ records = [k \in Keys |-> 0]
    /\ sleeps = [k \in Keys |-> 0]
    /\ remote_games = {}
    /\ open_failed = {}
    /\ monthly_rewards = [k \in Keys |-> <<>>]
    /\ fetches = [k \in Keys |-> 0]

Init ==
    /\ InitInputs
    /\ runs = 1
    /\ used_at_start = used_files
    /\ Fresh

Next ==
    \/ RedeemStart
    \/ \E t \in DOMAIN tasks : Acquire(t)
    \/ \E t \in DOMAIN tasks : ClientReturn(t)
    \/ \E t \in DOMAIN tasks : AccountsReturn(t)
    \/ \E t \in DOMAIN tasks : RedeemReturn(t)
    \/ SweepReturn
    \/ SleepReturn
    \/ DailyStart
    \/ \E t \in DOMAIN tasks : DailyClientReturn(t)
    \/ \E t \in DOMAIN tasks : ClaimReturn(t)
    \/ \E t \in DOMAIN tasks : RewardInfoReturn(t)
    \/ \E t \in DOMAIN tasks : MonthlyReturn(t)
    \/ \E t \in DOMAIN tasks : DailyAccountsReturn(t)
    \/ DailyReport

Spec == Init /\ [][Next]_vars

\* redeem, three accounts on one code: more tasks than slots of the gate.
\* Settings.MAX_PARALLEL is an unconstrained int of the environment: 0 is a
\* value asyncio.Semaphore accepts
InitGate ==
    /\ program = "redeem"
    /\ settings \in [MAX_PARALLEL : 0..MaxParallel, disabled : {{}},
                     webhook : {FALSE}]
    /\ argv = [auto |-> FALSE, force |-> FALSE,
               codes |-> [k \in Keys |-> IF k = "gi" THEN {"C1"} ELSE {}]]
    /\ feed = NoFeed
    /\ used_files = [k \in Keys |-> <<>>]
    /\ api = <<"BOB", "EVE", "EVE">>

\* redeem, one account on two codes: two sweeps with the sleep between them
InitPaced ==
    /\ program = "redeem"
    /\ settings \in [MAX_PARALLEL : 0..MaxParallel, disabled : {{}},
                     webhook : {FALSE}]
    /\ argv = [auto |-> FALSE, force |-> FALSE,
               codes |-> [k \in Keys |-> IF k = "gi" THEN Codes ELSE {}]]
    /\ feed = NoFeed
    /\ used_files = [k \in Keys |-> <<>>]
    /\ api = <<"BOB">>

(***************************************************************************)
(* A redeem run in which the event loop keeps running: every remote call   *)
(* returns or raises, a waiting task is admitted when the gate has a free  *)
(* slot, gather and sleep return.                                          *)
(***************************************************************************)
InitLive ==
    /\ InitGate \/ InitPaced
    /\ runs = 1
    /\ used_at_start = used_files
    /\ Fresh

NextLive ==
    \/ RedeemStart
    \/ \E t \in DOMAIN tasks : Acquire(t)
    \/ \E t \in DOMAIN tasks : ClientReturn(t)
    \/ \E t \in DOMAIN tasks : AccountsReturn(t)
    \/ \E t \in DOMAIN tasks : RedeemReturn(t)
    \/ SweepReturn
    \/ SleepReturn

\* the scheduling of asyncio and the answer of every remote call
Fairness ==
    /\ WF_vars(RedeemStart)
    /\ WF_vars(\E t \in DOMAIN tasks : Acquire(t))
    /\ WF_vars(\E t \in DOMAIN tasks : ClientReturn(t))
    /\ WF_vars(\E t \in DOMAIN tasks : AccountsReturn(t))
    /\ WF_vars(\E t \in DOMAIN tasks : RedeemReturn(t))
    /\ WF_vars(SweepReturn)
    /\ WF_vars(SleepReturn)

SpecLive == InitLive /\ [][NextLive]_vars /\ Fairness

(***************************************************************************)
(* redeem.py run several times on the same used/ directory.                *)
(***************************************************************************)
\* the command lines and feeds of a run: codes for the first game, one code
\* for the second on the command line, and no more work items than codes
RunCodes == {c \in CodeSets : c["sr"] \subseteq {"C1"}}
RunFeeds == {c \in CodeSets : c["sr"] = {}}
RunInputs ==
    {in \in [argv : [auto : BOOLEAN, force : BOOLEAN, codes : RunCodes],
             feed : RunFeeds] :
        /\ (~in.argv.auto) => in.feed = NoFeed
        /\ SumLen(in.argv.codes, Keys) + SumLen(in.feed, Keys)
              <= Cardinality(Codes)}

\* one account; the command line and the feed vary; no ledger file yet
InitRuns ==
    /\ program = "redeem"
    /\ settings = [MAX_PARALLEL |-> 1, disabled |-> {}, webhook |-> FALSE]
    /\ \E in \in RunInputs : argv = in.argv /\ feed = in.feed
    /\ api = <<"BOB">>
    /\ used_files = [k \in Keys |-> <<>>]
    /\ runs = 1
    /\ used_at_start = used_files
    /\ Fresh

\* asyncio.run(main()) of a later process: main starts again with a new
\* command line and feed; only the files under used/ are kept
NextRun ==
    /\ program = "redeem"
    /\ pc = "done"
    /\ runs < MaxRuns
    /\ runs' = runs + 1
    /\ \E in \in RunInputs : argv' = in.argv /\ feed' = in.feed
    /\ used_at_start' = used_files
    /\ pc' = "start"
    /\ codes_map' = [k \in Keys |-> <<>>]
    /\ cookies' = <<>>
    /\ cookies_fetched' = FALSE
    /\ key_idx' = 0
    /\ code_idx' = 0
    /\ semaphore' = 0
    /\ tasks' = <<>>
    /\ results' = <<>>
    /\ batch' = <<>>
    /\ webhook' = <<>>
    /\ console' = <<>>
    /\ chunker' = chunker
    /\ global_cookie_errors' = <<>>
    /\ records' = [k \in Keys |-> 0]
    /\ sleeps' = [k \in Keys |-> 0]
    /\ remote_games' = {}
    /\ open_failed' = {}
    /\ monthly_rewards' = [k \in Keys |-> <<>>]
    /\ fetches' = [k \in Keys |-> 0]
    /\ UNCHANGED << program, settings, api, used_files >>

NextRuns ==
    \/ RedeemStart
    \/ \E t \in DOMAIN tasks : Acquire(t)
    \/ \E t \in DOMAIN tasks : ClientReturn(t)
    \/ \E t \in DOMAIN tasks : AccountsReturn(t)
    \/ \E t \in DOMAIN tasks : RedeemReturn(t)
    \/ SweepReturn
    \/ SleepReturn
    \/ NextRun

SpecRuns == InitRuns /\ [][NextRuns]_vars


(***************************************************************************)
(* Properties.                                                             *)
(***************************************************************************)
\* redeem: operations admitted by the gate that have not returned
InFlight == {t \in DOMAIN tasks : tasks[t].pc \in Running}

\* daily: claim operations that have started and not produced their info
Claiming == {t \in DOMAIN tasks : tasks[t].pc # "done"}

NoGameStatuses == {"No Game", "no_account"}

\* C1: in a redeem run the number of operations admitted by the gate and not
\* yet returned never exceeds MAX_PARALLEL.
C1_GateBound ==
    program = "redeem" => Cardinality(InFlight) <= settings.MAX_PARALLEL

\* the gate is full while another task waits for a slot
C1_GateFull ==
    /\ program = "redeem"
    /\ Cardinality(InFlight) = settings.MAX_PARALLEL
    /\ \E t \in DOMAIN tasks : tasks[t].pc = "wait"

\* C2: in a daily-claim run the number of claim operations in flight never
\* exceeds MAX_PARALLEL.
C2_DailyBound ==
    program = "daily" => Cardinality(Claiming) <= settings.MAX_PARALLEL

\* C3: when a game's batch is complete it holds exactly one outcome for each
\* (work item, account) pair: accounts x codes outcomes in a redeem run,
\* one per account in a daily run, each at the place of its pair.
C3_OneOutcomePerPair ==
    \A g \in DOMAIN batch :
        LET n == Len(cookies)
            codes == codes_map[g]
        IN  IF program = "redeem"
            THEN /\ Len(batch[g]) = n * Len(codes)
                 /\ \A k \in 1..Len(codes), i \in 1..n :
                       LET r == batch[g][(k - 1) * n + i]
                       IN  /\ r.code = codes[k]
                           /\ r.env_name \in {cookies[i].env_name,
                                              display_name(cookies[i])}
            ELSE /\ Len(batch[g]) = n
                 /\ \A i \in 1..n :
                       batch[g][i].env_name = display_name(cookies[i])

\* a complete batch of several pairs in which a remote call faulted
C3_BatchWithFault ==
    \E g \in DOMAIN batch :
        /\ Len(batch[g]) >= 2
        /\ \E r \in Range(batch[g]) : r.status = "ERR"
        /\ \E r \in Range(batch[g]) : r.status \in CookieStatuses

\* C4: a code that is in a game's ledger at run start is not in the game's
\* work items when force is off, however it was supplied; when force is on
\* it is in the work items whenever it is supplied or active.
C4_Dedup ==
    (program = "redeem" /\ pc # "start") =>
        \A g \in Keys : \A c \in Range(used_at_start[g]) :
            /\ ~argv.force => c \notin Range(codes_map[g])
            /\ (argv.force /\ c \in argv.codes[g] \cup feed[g])
                  => c \in Range(codes_map[g])

\* C5: a redeem run whose work-item set is empty for every game ends without
\* fetching the accounts, without a game-service call, an outcome or a
\* webhook message, and with every ledger file as it was.
C5_NothingToDo ==
    (program = "redeem" /\ pc # "start" /\ \A k \in Keys : codes_map[k] = <<>>) =>
        /\ pc = "done"
        /\ ~cookies_fetched
        /\ remote_games = {}
        /\ tasks = <<>>
        /\ batch = <<>>
        /\ webhook = <<>>
        /\ used_files = used_at_start

\* every active code was used before, so nothing is left to redeem
C5_AllUsed ==
    /\ program = "redeem"
    /\ pc = "done"
    /\ argv.auto
    /\ \E k \in Keys : feed[k] # {}
    /\ \A k \in Keys : codes_map[k] = <<>>

\* C6: no line of a per-game webhook message comes from an outcome with
\* status No Game / no_account, and every name of the cookie-error alert is
\* the name of an outcome with a cookie-error status.
C6_Suppression ==
    \A j \in 1..Len(webhook) :
        IF webhook[j].kind = "alert"
        THEN \A x \in Range(webhook[j].lines[1].names) :
                \E g \in DOMAIN batch : \E r \in Range(batch[g]) :
                    r.env_name = x /\ r.status \in CookieStatuses
        ELSE \A l \in Range(webhook[j].lines) :
                /\ l.glyph \notin NoGameStatuses
                /\ l.text \notin NoGameStatuses

\* a game with a suppressed outcome for which a message was sent
C6_SuppressedBesideReported ==
    \E g \in DOMAIN batch :
        /\ \E r \in Range(batch[g]) : r.status \in NoGameStatuses
        /\ \E j \in 1..Len(webhook) : webhook[j].game = g

\* C7: no line of a per-game message comes from a cookie-error outcome; the
\* alert is sent at most once, as the last message of the run; and in it
\* every label of a cookie-error outcome appears exactly once.
C7_Aggregation ==
    /\ \A j \in 1..Len(webhook) :
          IF webhook[j].kind = "alert"
          THEN j = Len(webhook) /\ pc = "done"
          ELSE \A l \in Range(webhook[j].lines) :
                  /\ l.glyph \notin CookieStatuses
                  /\ l.text \notin CookieStatuses
    /\ (pc = "done" /\ settings.webhook) =>
          \A g \in DOMAIN batch : \A r \in Range(batch[g]) :
              r.status \in CookieStatuses =>
                 /\ webhook # <<>>
                 /\ webhook[Len(webhook)].kind = "alert"
                 /\ LET names == webhook[Len(webhook)].lines[1].names
                    IN  Cardinality({i \in 1..Len(names) :
                                        names[i] = r.env_name}) = 1

\* an alert was sent in which a label failed several times
C7_RepeatedFailure ==
    /\ pc = "done"
    /\ webhook # <<>>
    /\ webhook[Len(webhook)].kind = "alert"
    /\ Len(webhook) >= 2
    /\ \E x \in Range(webhook[Len(webhook)].lines[1].names) :
          Cardinality({p \in UNION {{<<g, i>> : i \in DOMAIN batch[g]} :
                                      g \in DOMAIN batch} :
                          /\ batch[p[1]][p[2]].env_name = x
                          /\ batch[p[1]][p[2]].status \in CookieStatuses}) >= 2

\* C8: operations of two codes of one game are never in flight together,
\* and an operation of the code at index k is admitted only when the
\* outcomes of all accounts for the codes before it are in the results.
C8_CodesInSequence ==
    program = "redeem" =>
        /\ \A t1 \in InFlight : \A t2 \in InFlight : t1[1] = t2[1]
        /\ \A t \in DOMAIN tasks :
              tasks[t].pc # "wait" =>
                 Len(results) >= (t[1] - 1) * Len(cookies)

\* the second code of a game is in flight for one of several accounts
C8_SecondCodeRunning ==
    /\ program = "redeem"
    /\ Len(cookies) >= 2
    /\ \E t \in InFlight : t[1] = 2

\* C9: get_monthly_rewards is called at most once per game in a run.
C9_FetchOnce == \A g \in Keys : fetches[g] <= 1

MAX_LENGTH == 1900      \* MAX_LENGTH = 1900
OpenFence == 4          \* len("```\n")
CloseFence == 3         \* len("```")
NewLine == 1            \* len("\n")
MaxLines == 3           \* lists of at most MaxLines lines

\* line lengths around the limit: a usual report line, lines that fill a
\* message to 1900 and 1904 characters with and without it, a longer line
LineLens == {40, 1851, 1855, 1896, 1897}

RECURSIVE LineLists(_)
LineLists(n) ==
    IF n = 0 THEN {<<>>}
    ELSE LineLists(n - 1)
         \cup {Append(l, x) : l \in {m \in LineLists(n - 1) : Len(m) = n - 1},
                              x \in LineLens}

\* send_discord_embed(webhook_url, title, current_msg, color)
send_discord_embed(sent, msg) == Append(sent, msg)

\* the call starts: current_msg = "```\n"
InitChunk ==
    /\ program \in {"redeem", "daily"}
    /\ settings = [MAX_PARALLEL |-> 1, disabled |-> {}, webhook |-> TRUE]
    /\ argv = NoArgs
    /\ feed = NoFeed
    /\ api = <<"BOB">>
    /\ used_files = [k \in Keys |-> <<>>]
    /\ runs = 1
    /\ used_at_start = used_files
    /\ pc = "chunk"
    /\ codes_map = [k \in Keys |-> <<>>]
    /\ cookies = get_cookies_from_api(api)
    /\ cookies_fetched = TRUE
    /\ key_idx = 0
    /\ code_idx = 0
    /\ semaphore = 0
    /\ tasks = <<>>
    /\ results = <<>>
    /\ batch = <<>>
    /\ webhook = <<>>
    /\ console = <<>>
    /\ global_cookie_errors = <<>>
    /\ records = [k \in Keys |-> 0]
    /\ sleeps = [k \in Keys |-> 0]
    /\ remote_games = {}
    /\ open_failed = {}
    /\ monthly_rewards = [k \in Keys |-> <<>>]
    /\ fetches = [k \in Keys |-> 0]
    /\ \E lines \in LineLists(MaxLines) :
          chunker = [lines |-> lines, i |-> 1, current_msg |-> OpenFence,
                     sent |-> <<>>]

\* one iteration of `for line in lines`
ChunkLine ==
    /\ pc = "chunk"
    /\ chunker.i <= Len(chunker.lines)
    /\ LET line == chunker.lines[chunker.i]
       IN  IF chunker.current_msg + line > MAX_LENGTH
           THEN chunker' =
                  [chunker EXCEPT
                     !.sent = send_discord_embed(@, chunker.current_msg
                                                       + CloseFence),
                     !.current_msg = OpenFence + line + NewLine,
                     !.i = @ + 1]
           ELSE chunker' =
                  [chunker EXCEPT !.current_msg = @ + line + NewLine,
                                  !.i = @ + 1]
    /\ UNCHANGED << inputs, used_files, pc, codes_map, cookies,
                    cookies_fetched, key_idx, code_idx, semaphore, tasks,
                    results, batch, console, webhook, global_cookie_errors,
                    records, sleeps, remote_games, open_failed,
                    monthly_rewards, fetches >>

\* after the loop: `if len(current_msg) > 4`
ChunkEnd ==
    /\ pc = "chunk"
    /\ chunker.i > Len(chunker.lines)
    /\ pc' = "done"
    /\ IF chunker.current_msg > OpenFence
       THEN chunker' =
              [chunker EXCEPT
                 !.sent = send_discord_embed(@, chunker.current_msg
                                                   + CloseFence)]
       ELSE UNCHANGED chunker
    /\ UNCHANGED << inputs, used_files, codes_map, cookies, cookies_fetched,
                    key_idx, code_idx, semaphore, tasks, results, batch,
                    console, webhook, global_cookie_errors, records, sleeps,
                    remote_games, open_failed, monthly_rewards, fetches >>

NextChunk == ChunkLine \/ ChunkEnd

SpecChunk == InitChunk /\ [][NextChunk]_vars

\* used/<game>.txt read as get_used_codes reads it: the set of its lines
Ledger(files, g) == get_used_codes(files)[g]

\* C11: no step of a sequence of redeem runs takes a code out of a game's
\* ledger; a record adds exactly the game's codes to it, so recording codes
\* that are all in the ledger leaves its set of codes as it was.
C11_LedgerGrows ==
    [][\A g \in Keys :
          Ledger(used_files', g) =
             Ledger(used_files, g) \cup
                (IF records'[g] = records[g] + 1 THEN Range(codes_map[g])
                 ELSE {})]_vars

\* a later run under force recorded a code that the ledger already held
C11_RecordedAgain ==
    /\ runs >= 2
    /\ argv.force
    /\ \E g \in Keys :
          /\ records[g] = 1
          /\ Range(codes_map[g]) \cap Range(used_at_start[g]) # {}
          /\ Ledger(used_files, g) = Ledger(used_at_start, g)

\* C12: a run whose account list is empty ends at once: no session is opened
\* and no game-service call made, no task and no outcome exists, no webhook
\* message is sent and no ledger file is written.
C12_NoAccountsNoEffects ==
    (cookies_fetched /\ cookies = <<>>) =>
        /\ pc = "done"
        /\ remote_games = {}
        /\ tasks = <<>>
        /\ results = <<>>
        /\ batch = <<>>
        /\ webhook = <<>>
        /\ global_cookie_errors = <<>>
        /\ used_files = used_at_start
        /\ \A g \in Keys : records[g] = 0 /\ fetches[g] = 0

\* a redeem run with codes to redeem and a webhook set got no accounts
C12_RedeemWithoutAccounts ==
    /\ program = "redeem"
    /\ cookies_fetched
    /\ cookies = <<>>
    /\ settings.webhook
    /\ \E g \in Keys : codes_map[g] # <<>>

\* C13: process_game sleeps after a code's sweep only while a later code of
\* the game is left, so a processed game with n codes has slept n - 1 times.
C13_Pacing ==
    program = "redeem" =>
        /\ pc = "sleep" => code_idx < Len(CurCodes)
        /\ \A g \in DOMAIN batch : sleeps[g] = Len(codes_map[g]) - 1

\* the sweep of the code at index k of game g has finished: gather returned
\* and the outcomes of all accounts for the code are in the results
SweepFinished(g, k) ==
    \/ g \in DOMAIN batch
    \/ /\ pc \in {"gather", "sleep"}
       /\ CurKey = g
       /\ Len(results) >= k * Len(cookies)

\* the lines this run has appended to the ledger file of game g
AddedByRun(g) ==
    Range(SubSeq(used_files[g], Len(used_at_start[g]) + 1, Len(used_files[g])))

\* a run with --auto and without --force in which the feed holds c for g
AutoArgs == [auto |-> TRUE, force |-> FALSE, codes |-> [k \in Keys |-> {}]]
FeedWith(g, c) == [k \in Keys |-> IF k = g THEN {c} ELSE {}]

\* C14: while the sweep of a code c of game g has not finished, this run has
\* not added c to g's ledger file; so if the process ends there and c was
\* not in the ledger before, a later run that finds c in the feed takes it
\* as a work item.
C14_CrashSafe ==
    program = "redeem" =>
        \A g \in Keys : \A k \in 1..Len(codes_map[g]) :
            ~SweepFinished(g, k) =>
                /\ codes_map[g][k] \notin AddedByRun(g)
                /\ codes_map[g][k] \notin Range(used_at_start[g]) =>
                      codes_map[g][k] \in
                         new_codes(AutoArgs, FeedWith(g, codes_map[g][k]),
                                   used_files, g)

\* a redemption is in flight after an earlier game of the run was recorded
C14_MidSweepAfterRecord ==
    /\ program = "redeem"
    /\ pc = "gather"
    /\ \E g \in Keys : records[g] = 1
    /\ \E t \in DOMAIN tasks : tasks[t].pc = "redeem"
    /\ ~SweepFinished(CurKey, code_idx)

\* C15: a task whose try block caught an unexpected exception has returned
\* an outcome with status ERR and success false, while the coordinator still
\* waits for the batch; a returned task holds no slot of the gate, so a
\* waiting sibling is admitted as soon as no more than MAX_PARALLEL - 1
\* operations are in flight; and no ERR outcome of a batch counts as success.
C15_FaultIsolation ==
    /\ \A t \in DOMAIN tasks :
          tasks[t].fault =>
             /\ tasks[t].pc = "done"
             /\ tasks[t].info.status = "ERR"
             /\ ~tasks[t].info.success
             /\ pc \in {"gather", "taskgroup"}
    /\ (program = "redeem" /\ pc = "gather") =>
          semaphore + Cardinality(InFlight) = settings.MAX_PARALLEL
    /\ \A g \in DOMAIN batch : \A r \in Range(batch[g]) :
          r.status = "ERR" => ~r.success

\* a daily task faulted after its claim and reward lookup had succeeded,
\* and a sibling task of the run returned a successful outcome
C15_FaultBesideSuccess ==
    /\ program = "daily"
    /\ \E t \in DOMAIN tasks : \E u \in DOMAIN tasks :
          /\ tasks[t].fault
          /\ tasks[t].info.check_in_count # "?"
          /\ u # t
          /\ tasks[u].pc = "done"
          /\ tasks[u].info.success

\* daily: the calls made after the claim: reward/day lookup, monthly
\* catalogue, account resolution
Lookups == {"reward_info", "monthly", "accounts"}

\* daily: the statuses after which claim returns at once
Terminal == {"cookie_err", "no_account", "FAIL"}

\* daily: the outcomes of the run, returned or already in a batch
DailyOutcomes ==
    {tasks[t].info : t \in {u \in DOMAIN tasks : tasks[u].pc = "done"}}
    \cup UNION {Range(batch[g]) : g \in DOMAIN batch}

\* C16: in a daily run a task is at a lookup call only with status Claimed
\* or AlreadyClaimed; an outcome with status cookie_err, no_account or
\* claim-failed carries no lookup result and has success false; and an
\* outcome has success true exactly when its status is Claimed or
\* AlreadyClaimed, with or without a game profile.
C16_ClaimPath ==
    program = "daily" =>
        /\ \A t \in DOMAIN tasks :
              tasks[t].pc \in Lookups => tasks[t].info.status \in {"OK", "CLAIMED"}
        /\ \A i \in DailyOutcomes :
              /\ i.status \in Terminal =>
                    /\ ~i.success
                    /\ i.check_in_count = "?"
                    /\ i.reward = "?"
                    /\ i.uid = "?"
              /\ i.success <=> i.status \in {"OK", "CLAIMED"}

\* a batch holds a successful outcome without a game profile next to an
\* outcome of a terminal status
C16_UnknownUid ==
    /\ program = "daily"
    /\ \E g \in DOMAIN batch :
          /\ \E i \in Range(batch[g]) :
                i.uid = "Unknown" /\ i.success /\ i.status = "CLAIMED"
          /\ \E i \in Range(batch[g]) : i.status \in Terminal

\* redeem: the outcomes of the run, returned or already in a batch
RedeemOutcomes ==
    {tasks[t].info : t \in {u \in DOMAIN tasks : tasks[u].pc = "done"}}
    \cup UNION {Range(batch[g]) : g \in DOMAIN batch}

\* C17: every outcome of redeem_process has success true exactly when its
\* status is Claimed or AlreadyClaimed, the two statuses of the aggregator's
\* success bucket.
C17_RedeemSuccess ==
    program = "redeem" =>
        \A r \in RedeemOutcomes :
            /\ r.success <=> r.status \in {"OK", "CLAIMED"}
            /\ r.success <=> RedeemBucket(r) = "success"

\* the last message of the run when it is the cookie-error alert
Alert == IF webhook # <<>> /\ webhook[Len(webhook)].kind = "alert"
         THEN webhook[Len(webhook)].lines[1]
         ELSE [count |-> 0, names |-> <<>>]

\* C18: at the end of a run with a webhook the alert has one entry for each
\* account with a failed session open and no other: the count and the number
\* of entries equal the number of such accounts, and the entries carry their
\* names.
C18_Digest ==
    (pc = "done" /\ settings.webhook) =>
        /\ Alert.count = Cardinality(open_failed)
        /\ Len(Alert.names) = Cardinality(open_failed)
        /\ {x.name : x \in Range(Alert.names)} = {api[i] : i \in open_failed}

\* the tables of game g on the console
TablesOf(g) ==
    {j \in 1..Len(console) : console[j].kind = "table" /\ console[j].game = g}

\* C19: the console shows exactly one table for every processed game, and
\* the table has one row for each outcome of the game, in order, whatever
\* the outcome's status.
C19_TableComplete ==
    \A g \in DOMAIN batch :
        batch[g] # <<>> =>
            /\ Cardinality(TablesOf(g)) = 1
            /\ \A j \in TablesOf(g) :
                  /\ Len(console[j].rows) = Len(batch[g])
                  /\ \A i \in 1..Len(batch[g]) :
                        /\ console[j].rows[i].env_name = batch[g][i].env_name
                        /\ console[j].rows[i].status = batch[g][i].status

\* C20: no message that send_chunked_webhook sends is longer than MAX_LENGTH
\* characters, fences included.
C20_ChunkBound ==
    \A j \in 1..Len(chunker.sent) : chunker.sent[j] <= MAX_LENGTH

\* a sweep is under way: its tasks exist and gather has not returned
Sweeping == program = "redeem" /\ pc = "gather"

\* every task of the sweep has been admitted and has returned its outcome
AllReturned == Sweeping /\ \A t \in DOMAIN tasks : TaskDone(t)

\* C21: in a redeem run whose remote calls all return, every sweep reaches
\* the point where each of its tasks has been admitted by the gate and has
\* returned its outcome; at that point and after the barrier no operation
\* is in flight and every slot of the gate is free; and the run ends.
C21_GateLiveness ==
    /\ Sweeping ~> AllReturned
    /\ [](AllReturned => semaphore = settings.MAX_PARALLEL)
    /\ [](pc = "sleep" =>
             InFlight = {} /\ semaphore = settings.MAX_PARALLEL)
    /\ <>(pc = "done")

\* a sweep of three tasks on a gate of capacity 0: every task waits and no
\* slot will ever be free
C21_NeverAdmitted ==
    /\ Sweeping
    /\ settings.MAX_PARALLEL = 0
    /\ Len(cookies) = 3
    /\ \A t \in DOMAIN tasks : tasks[t].pc = "wait"
    /\ locked(semaphore)


(***************************************************************************)
(* Disabled games.                                                         *)
(***************************************************************************)
\* what a redeem run has done for game g: game-service calls, sweeps,
\* outcomes, tables, webhook messages, ledger writes
Touched(g) ==
    \/ g \in remote_games
    \/ pc \in {"gather", "sleep"} /\ CurKey = g
    \/ g \in DOMAIN batch
    \/ \E i \in DOMAIN webhook : webhook[i].game = g
    \/ \E i \in DOMAIN console :
          console[i].kind = "table" /\ console[i].game = g
    \/ records[g] # 0
    \/ sleeps[g] # 0
    \/ used_files[g] # used_at_start[g]

====
